---- MODULE Spec2Model ----
(***************************************************************************)
(* OptKeras (src/optkeras/optkeras.py): a Keras callback that couples a    *)
(* training loop to an Optuna study.  The model holds the OptKeras object  *)
(* (the record self), the study's trial list, the model files on disk and, *)
(* per thread, the position in callbacks(), the epoch callbacks and        *)
(* clean_up_model_files().  Thread 0 is the caller of OptKeras.optimize;   *)
(* threads 1.. are the jobs of study.optimize, each running the objective  *)
(* function for one trial at a time.                                       *)
(***************************************************************************)
EXTENDS Integers, Sequences, FiniteSets, TLC

VARIABLES self, study, files, pc, trial, cbs, check_point, logs, todo,
          nepochs, clock, raised, optuna_log_file, failure_printed,
          \* the logs dict as the training loop passed it to on_epoch_end
          delivered,
          \* history: the EpochLogs delivered in each job's current trial, the
          \* paths ever saved, and what optimize did after study.optimize
          epochlogs, written, post_ops

vars == <<self, study, files, pc, trial, cbs, check_point, logs, todo,
          nepochs, clock, raised, optuna_log_file, failure_printed,
          delivered, epochlogs, written, post_ops>>

---------------------------------------------------------------------------
(* Bounds of the model.                                                    *)

\* trials one run of study.optimize creates (its n_trials), and epochs the
\* training loops of one run deliver in total: with one job
MaxTrials == 3
MaxEpochs == 3
\* the same with two jobs
ParTrials == 3
ParEpochs == 2
\* metric values are multiples of 1/Scale: the value 1.0 is Scale
Scale == 1
\* the objective function returns a value in 0..MaxObj
MaxObj == 2
\* trials and epochs of the runs in which log generation may fail
LogTrials == 2
LogEpochs == 2
\* trials and epochs of the runs over every monitor name and metric key
MetTrials == 1
MetEpochs == 1

Main == 0
SeqWorkers == {1}
ParWorkers == {1, 2}
Threads == {Main} \cup ParWorkers

---------------------------------------------------------------------------
(* Python values.                                                          *)

\* None, where the other values of the field are integers
None == -1
\* np.Inf: larger than every metric value
Inf == 1000
\* a dict is a function whose domain is its key set
EmptyDict == <<>>
\* an attribute __init__ does not assign does not exist yet
Unset == [unset |-> TRUE]

dict_get(d, k, default) == IF k \in DOMAIN d THEN d[k] ELSE default

dict_update(d, e) ==
    [k \in DOMAIN d \cup DOMAIN e |-> IF k \in DOMAIN e THEN e[k] ELSE d[k]]

dict_set(d, k, v) == dict_update(d, k :> v)

---------------------------------------------------------------------------
(* File names.                                                             *)

DigitChars == <<"0", "1", "2", "3", "4", "5", "6", "7", "8", "9">>

RECURSIVE DecimalDigits(_)
DecimalDigits(n) ==
    IF n < 10 THEN <<DigitChars[n + 1]>>
    ELSE DecimalDigits(n \div 10) \o <<DigitChars[(n % 10) + 1]>>

RECURSIVE ZeroPad(_, _)
ZeroPad(s, width) == IF Len(s) >= width THEN s ELSE ZeroPad(<<"0">> \o s, width)

\* '{:06d}'.format(trial_id)
PadWidth == 6
Format06d(n) == ZeroPad(DecimalDigits(n), PadWidth)

\* a path is the sequence of its parts: prefix, characters, suffix
get_model_file_path(obj, trial_id) ==
    <<obj.model_file_prefix>>
    \o (IF trial_id = None THEN <<"*">> ELSE Format06d(trial_id))
    \o <<obj.model_file_suffix>>

\* glob.glob(pattern) for a pattern prefix + '*' + suffix
glob(pattern) ==
    {f \in files : /\ Len(f) >= 2
                   /\ f[1] = pattern[1]
                   /\ f[Len(f)] = pattern[Len(pattern)]}

---------------------------------------------------------------------------
(* The Optuna study: an ordered list of trials and a direction.            *)

\* optuna.structs.FrozenTrial(None, None, None, None, None, None, ...)
NoneDict == [none |-> TRUE]
SentinelTrial ==
    [trial_id |-> None, state |-> "None", value |-> None, user_attrs |-> NoneDict]

\* optuna.create_study(**kwargs): no trials yet
create_study(direction) == [direction |-> direction, trials |-> <<>>]

\* the trial study.optimize creates before it calls the objective function;
\* trial ids count from 0 in the order of creation
NewTrial(st) ==
    [trial_id |-> Len(st.trials), state |-> "RUNNING", value |-> None,
     user_attrs |-> EmptyDict]

CompleteTrials(st) ==
    {i \in 1..Len(st.trials) : st.trials[i].state = "COMPLETE"}

\* v is at least as good as w under the study's direction
NotWorse(st, v, w) == IF st.direction = "maximize" THEN v >= w ELSE v <= w

\* study.best_trial raises ValueError when no trial is complete
study_best_trial_raises(st) == CompleteTrials(st) = {}

\* study.best_trial: min (or max) of the complete trials by value, the first
\* of equal values
study_best_trial(st) ==
    LET C == CompleteTrials(st)
        best == {i \in C : \A j \in C : NotWorse(st, st.trials[i].value,
                                                   st.trials[j].value)}
        first == CHOOSE i \in best : \A j \in best : i <= j
    IN  st.trials[first]

\* trial.set_user_attr(key, val) for every item of attrs, on trial tid
set_user_attrs(st, tid, attrs) ==
    [st EXCEPT !.trials[tid + 1].user_attrs = dict_update(@, attrs)]

---------------------------------------------------------------------------
(* The OptKeras object.                                                    *)

\* OptKeras.__init__(monitor, models_to_keep, ...): no argument is rejected
OptKeras__init__(monitor, enable_optuna_log, models_to_keep) ==
    LET mode_max == monitor \in {"acc", "val_acc"}
        default_value == IF mode_max THEN -Inf ELSE Inf
    IN  [monitor |-> monitor,
         mode_max |-> mode_max,
         mode |-> IF mode_max THEN "max" ELSE "min",
         default_value |-> default_value,
         latest_logs |-> EmptyDict,
         latest_value |-> default_value,
         trial_best_logs |-> EmptyDict,
         trial_best_value |-> default_value,
         enable_optuna_log |-> enable_optuna_log,
         models_to_keep |-> models_to_keep,
         model_file_prefix |-> "study_model_",
         model_file_suffix |-> ".hdf5",
         \* attributes the methods below create
         optuna_log |-> Unset,
         best_trial |-> Unset,
         latest_trial |-> Unset,
         trial |-> None,
         model_file_path |-> <<>>,
         best_model_file_path |-> <<>>,
         model_file_list |-> {},
         datetime_epoch_begin |-> 0,
         datetime_epoch_end |-> 0]

\* mutant: latest_trial is assigned only when the study has trials
resolve_latest_trial_unassigned(st) ==
    LET n == Len(st.trials)
    IN  IF n >= 1
        THEN IF st.trials[n].state = "RUNNING"
             THEN IF n >= 2 THEN st.trials[n - 1] ELSE SentinelTrial
             ELSE st.trials[n]
        ELSE Unset

\* the latest_trial block of synch_with_optuna
resolve_latest_trial(st) ==
    LET n == Len(st.trials)
    IN  IF n >= 1
        THEN IF st.trials[n].state = "RUNNING"
             THEN IF n >= 2 THEN st.trials[n - 1] ELSE SentinelTrial
             ELSE st.trials[n]
        ELSE SentinelTrial

\* mutant: the latest trial taken for the best one
resolve_best_trial_latest(st) ==
    IF study_best_trial_raises(st) THEN SentinelTrial
    ELSE resolve_latest_trial(st)

\* the try/except around study.best_trial
resolve_best_trial(st) ==
    IF study_best_trial_raises(st) THEN SentinelTrial ELSE study_best_trial(st)

\* study.trials_dataframe(): one row per trial
trials_dataframe(st) == [rows |-> st.trials]

\* how a call of generate_optuna_log_file ends: it succeeds, or something
\* raises before self.optuna_log is assigned (lines 158-161), or to_csv
\* raises (line 163); the bare except swallows either
LogOutcomes == {"ok", "dataframe_raises", "to_csv_raises"}

\* what generate_optuna_log_file assigns to the object
generate_optuna_log_file(obj, st, outcome) ==
    IF outcome = "dataframe_raises" THEN obj
    ELSE [obj EXCEPT !.optuna_log = trials_dataframe(st)]

\* the Optuna log file after generate_optuna_log_file
to_csv(file, obj, outcome) == IF outcome = "ok" THEN obj.optuna_log ELSE file

\* mutant: a failure of generate_optuna_log_file ends synch_with_optuna
synch_with_optuna_aborting(obj, st, outcome) ==
    IF obj.enable_optuna_log /\ outcome # "ok"
    THEN generate_optuna_log_file(obj, st, outcome)
    ELSE [obj EXCEPT !.optuna_log = IF obj.enable_optuna_log
                                     THEN trials_dataframe(st) ELSE @,
                     !.best_trial = resolve_best_trial(st),
                     !.latest_trial = resolve_latest_trial(st)]

\* mutant: synch_with_optuna also starts the trial's best logs afresh
synch_with_optuna_resetting(obj, st, outcome) ==
    LET logged == IF obj.enable_optuna_log
                  THEN generate_optuna_log_file(obj, st, outcome)
                  ELSE obj
    IN  [logged EXCEPT !.best_trial = resolve_best_trial(st),
                       !.latest_trial = resolve_latest_trial(st),
                       !.trial_best_logs = EmptyDict,
                       !.trial_best_value = obj.default_value]

\* what synch_with_optuna assigns to the object
synch_with_optuna(obj, st, outcome) ==
    LET logged == IF obj.enable_optuna_log
                  THEN generate_optuna_log_file(obj, st, outcome)
                  ELSE obj
    IN  [logged EXCEPT !.best_trial = resolve_best_trial(st),
                       !.latest_trial = resolve_latest_trial(st)]

\* whether the except branch of generate_optuna_log_file is taken, which
\* prints 'Failed to generate Optuna log file. Continue to run.'
prints_failure(obj, outcome) == obj.enable_optuna_log /\ outcome # "ok"

\* the Optuna log file after synch_with_optuna
synch_log_file(file, obj, st, outcome) ==
    IF obj.enable_optuna_log
    THEN to_csv(file, generate_optuna_log_file(obj, st, outcome), outcome)
    ELSE file

\* mutant: a value as good as the best counts as an improvement
update_flag_not_worse(latest, best, mode_max) ==
    (mode_max /\ latest >= best) \/ (~mode_max /\ latest <= best)

\* update_flag(latest, best, mode_max)
update_flag(latest, best, mode_max) ==
    (mode_max /\ latest > best) \/ (~mode_max /\ latest < best)

\* mutant: only the monitored value is taken into best_logs
update_best_logs_value_only(latest_logs, best_logs, monitor, mode_max, default_value) ==
    LET latest == dict_get(latest_logs, monitor, default_value)
        best == dict_get(best_logs, monitor, default_value)
    IN  IF update_flag(latest, best, mode_max)
        THEN dict_set(best_logs, monitor, latest)
        ELSE best_logs

\* update_best_logs(latest_logs, best_logs, monitor, mode_max, default_value):
\* the new value of best_logs
update_best_logs(latest_logs, best_logs, monitor, mode_max, default_value) ==
    LET latest == dict_get(latest_logs, monitor, default_value)
        best == dict_get(best_logs, monitor, default_value)
    IN  IF update_flag(latest, best, mode_max)
        THEN dict_update(best_logs, latest_logs)
        ELSE best_logs

\* what on_epoch_begin assigns
epoch_begin(obj, now) ==
    [obj EXCEPT !.datetime_epoch_begin = now,
                !.trial_best_logs = EmptyDict]

\* mutant: error taken from val_acc and val_error from acc
stamp_logs_crossed(obj, raw, st) ==
    LET l1 == dict_set(raw, "error", Scale - dict_get(raw, "val_acc", 0))
        l2 == dict_set(l1, "val_error", Scale - dict_get(l1, "acc", 0))
        l3 == dict_set(l2, "_Datetime_epoch_begin", obj.datetime_epoch_begin)
        l4 == dict_set(l3, "_Datetime_epoch_end", obj.datetime_epoch_end)
        l5 == dict_set(l4, "_Trial_id", st.trials[obj.trial + 1].trial_id)
    IN  dict_set(l5, "_Monitor", obj.monitor)

\* the logs dict after on_epoch_end has added its keys (lines 231-236)
stamp_logs(obj, raw, st) ==
    LET l1 == dict_set(raw, "error", Scale - dict_get(raw, "acc", 0))
        l2 == dict_set(l1, "val_error", Scale - dict_get(l1, "val_acc", 0))
        l3 == dict_set(l2, "_Datetime_epoch_begin", obj.datetime_epoch_begin)
        l4 == dict_set(l3, "_Datetime_epoch_end", obj.datetime_epoch_end)
        l5 == dict_set(l4, "_Trial_id", st.trials[obj.trial + 1].trial_id)
    IN  dict_set(l5, "_Monitor", obj.monitor)

\* what on_epoch_end assigns to the object, given the stamped logs
epoch_end(obj, stamped) ==
    LET best == update_best_logs(stamped, obj.trial_best_logs, obj.monitor,
                                 obj.mode_max, obj.default_value)
    IN  [obj EXCEPT !.latest_logs = stamped,
                    !.trial_best_logs = best,
                    !.trial_best_value =
                        dict_get(best, obj.monitor, obj.default_value)]

\* save_logs_as_optuna_attributes: one set_user_attr per item
save_logs_as_optuna_attributes(obj, st) ==
    set_user_attrs(st, obj.trial, obj.trial_best_logs)

---------------------------------------------------------------------------
(* The Keras side: the ModelCheckpoint callback that callbacks() creates.  *)

\* ModelCheckpoint(filepath, monitor, mode, save_best_only = True, period = 1)
ModelCheckpoint(filepath, monitor, mode) ==
    [filepath |-> filepath, monitor |-> monitor, mode |-> mode,
     best |-> IF mode = "max" THEN -Inf ELSE Inf]

\* whether ModelCheckpoint.on_epoch_end saves: the monitored value is in
\* the logs and improves on the callback's best
ModelCheckpoint_saves(cp, epoch_logs) ==
    /\ cp.monitor \in DOMAIN epoch_logs
    /\ IF cp.mode = "max" THEN epoch_logs[cp.monitor] > cp.best
                          ELSE epoch_logs[cp.monitor] < cp.best

\* the raw logs Keras hands to on_epoch_end: any of keys, values in 0..Scale
RawLogs(keys) == UNION {[D -> 0..Scale] : D \in SUBSET keys}

---------------------------------------------------------------------------
(* The state after construction.                                           *)

InitWith(monitors, optuna_logs, keeps, directions) ==
    /\ self \in {OptKeras__init__(m, l, k) :
                    m \in monitors, l \in optuna_logs, k \in keeps}
    /\ optuna_log_file = Unset
    /\ failure_printed = [t \in Threads |-> FALSE]
    /\ delivered = [t \in Threads |-> EmptyDict]
    /\ study \in {create_study(d) : d \in directions}
    /\ files = {}
    /\ pc = [t \in Threads |-> IF t = Main THEN "optimize" ELSE "idle"]
    /\ trial = [t \in Threads |-> None]
    /\ cbs = [t \in Threads |-> <<>>]
    /\ check_point = [t \in Threads |-> Unset]
    /\ logs = [t \in Threads |-> EmptyDict]
    /\ todo = [t \in Threads |-> {}]
    /\ epochlogs = [t \in Threads |-> <<>>]
    /\ written = {}
    /\ post_ops = <<>>
    /\ nepochs = 0
    /\ clock = 1
    /\ raised = [t \in Threads |-> "none"]

---------------------------------------------------------------------------
(* study.optimize (line 86): each job creates a trial, runs the objective  *)
(* function on it and records how it ended.                                *)

SetTrialState(st, tid, state, value) ==
    [st EXCEPT !.trials[tid + 1].state = state, !.trials[tid + 1].value = value]

\* a job starts a trial and calls the objective function, which calls
\* callbacks(trial)
start_trial(w, n_trials) ==
    /\ pc[Main] = "optimize"
    /\ pc[w] = "idle"
    /\ Len(study.trials) < n_trials
    /\ study' = [study EXCEPT !.trials = Append(@, NewTrial(study))]
    /\ trial' = [trial EXCEPT ![w] = Len(study.trials)]
    /\ epochlogs' = [epochlogs EXCEPT ![w] = <<>>]
    /\ pc' = [pc EXCEPT ![w] = "callbacks"]
    /\ UNCHANGED <<self, files, cbs, check_point, logs, todo, nepochs, clock,
                   raised, written, post_ops, optuna_log_file,
                   failure_printed, delivered>>

\* the objective function returns value after at least one epoch
objective_returns(w, value) ==
    /\ pc[w] = "fit"
    /\ Len(epochlogs[w]) >= 1
    /\ study' = SetTrialState(study, trial[w], "COMPLETE", value)
    /\ pc' = [pc EXCEPT ![w] = "idle"]
    /\ UNCHANGED <<self, files, trial, cbs, check_point, logs, todo, epochlogs,
                   nepochs, clock, raised, written, post_ops, optuna_log_file,
                   failure_printed, delivered>>

\* the objective function raises between epochs: TrialPruned ends the trial
\* PRUNED, another exception (caught by study.optimize) ends it FAIL
objective_raises(w, state) ==
    /\ pc[w] = "fit"
    /\ study' = SetTrialState(study, trial[w], state, None)
    /\ pc' = [pc EXCEPT ![w] = "idle"]
    /\ UNCHANGED <<self, files, trial, cbs, check_point, logs, todo, epochlogs,
                   nepochs, clock, raised, written, post_ops, optuna_log_file,
                   failure_printed, delivered>>

\* study.optimize returns once no job runs a trial (n_trials or timeout)
study_optimize_returns(workers) ==
    /\ pc[Main] = "optimize"
    /\ \A w \in workers : pc[w] = "idle"
    /\ pc' = [pc EXCEPT ![Main] = "post_process"]
    /\ UNCHANGED <<self, study, files, trial, cbs, check_point, logs, todo,
                   epochlogs, nepochs, clock, raised, written, post_ops, optuna_log_file,
                   failure_printed, delivered>>

---------------------------------------------------------------------------
(* OptKeras.callbacks(trial), called by the objective function.            *)

\* line 125: self.synch_with_optuna()
callbacks_synch(w, outcome) ==
    /\ pc[w] = "callbacks"
    /\ self' = synch_with_optuna(self, study, outcome)
    /\ optuna_log_file' = synch_log_file(optuna_log_file, self, study, outcome)
    /\ failure_printed' =
           [failure_printed EXCEPT ![w] = prints_failure(self, outcome)]
    /\ pc' = [pc EXCEPT ![w] = "bind"]
    /\ UNCHANGED <<study, files, trial, cbs, check_point, logs, todo,
                   epochlogs, nepochs, clock, raised, written, post_ops,
                   delivered>>

\* lines 127-128: self.trial and self.model_file_path
callbacks_bind(w) ==
    /\ pc[w] = "bind"
    /\ self' = [self EXCEPT
                  !.trial = trial[w],
                  !.model_file_path =
                      get_model_file_path(self,
                                          study.trials[trial[w] + 1].trial_id)]
    /\ pc' = [pc EXCEPT ![w] = "build"]
    /\ UNCHANGED <<study, files, trial, cbs, check_point, logs, todo,
                   epochlogs, nepochs, clock, raised, written, post_ops, optuna_log_file,
                   failure_printed, delivered>>

\* the list callbacks() returns: self, the CSVLogger, and the ModelCheckpoint
\* unless models_to_keep is 0
callbacks_list(obj) ==
    <<"self", "csv_logger">>
    \o (IF obj.models_to_keep # 0 THEN <<"check_point">> ELSE <<>>)

\* mutant: callbacks() without line 139, the clean-up
callbacks_build_without_clean_up(w) ==
    /\ pc[w] = "build"
    /\ cbs' = [cbs EXCEPT ![w] = callbacks_list(self)]
    /\ check_point' =
           [check_point EXCEPT ![w] =
               IF self.models_to_keep # 0
               THEN ModelCheckpoint(self.model_file_path, self.monitor,
                                    self.mode)
               ELSE Unset]
    /\ pc' = [pc EXCEPT ![w] = "fit"]
    /\ UNCHANGED <<self, study, files, trial, logs, todo, epochlogs, nepochs,
                   clock, raised, written, post_ops, optuna_log_file,
                   failure_printed, delivered>>

\* lines 129-138: the callback list, with a ModelCheckpoint on
\* self.model_file_path; with a ModelCheckpoint comes line 139, the clean-up
callbacks_build(w) ==
    /\ pc[w] = "build"
    /\ cbs' = [cbs EXCEPT ![w] = callbacks_list(self)]
    /\ check_point' =
           [check_point EXCEPT ![w] =
               IF self.models_to_keep # 0
               THEN ModelCheckpoint(self.model_file_path, self.monitor,
                                    self.mode)
               ELSE Unset]
    /\ pc' = [pc EXCEPT ![w] = IF self.models_to_keep # 0 THEN "clean_up"
                                                           ELSE "fit"]
    /\ UNCHANGED <<self, study, files, trial, logs, todo, epochlogs, nepochs,
                   clock, raised, written, post_ops, optuna_log_file,
                   failure_printed, delivered>>

---------------------------------------------------------------------------
(* OptKeras.clean_up_model_files(), by a job inside callbacks() or by the  *)
(* caller of optimize inside post_process().                               *)

\* where a thread continues when clean_up_model_files returns
AfterCleanUp(t) == IF t = Main THEN "done" ELSE "fit"

\* mutant: every policy but keep-none cleans up
cleans_up_unless_none(obj) == obj.models_to_keep # 0

\* the policy test of line 105
cleans_up(obj) == obj.models_to_keep \in {1}

\* mutant: the running trial's file is spared, not the best trial's
is_kept_current(obj, model_file) == model_file \in {obj.model_file_path}

\* the file line 111 spares
is_kept(obj, model_file) == model_file \in {obj.best_model_file_path}

\* lines 105-109: the best trial's path and the glob of the model files
clean_up_model_files(t) ==
    /\ pc[t] = "clean_up"
    /\ post_ops' = IF t = Main THEN Append(post_ops, "clean_up_model_files")
                               ELSE post_ops
    /\ IF cleans_up(self)
       THEN LET list == glob(get_model_file_path(self, None))
            IN  /\ self' = [self EXCEPT
                              !.best_model_file_path =
                                  get_model_file_path(self,
                                                      self.best_trial.trial_id),
                              !.model_file_list = list]
                /\ todo' = [todo EXCEPT ![t] = list]
                /\ pc' = [pc EXCEPT ![t] = IF list = {} THEN AfterCleanUp(t)
                                                        ELSE "remove"]
       ELSE /\ pc' = [pc EXCEPT ![t] = AfterCleanUp(t)]
            /\ UNCHANGED <<self, todo>>
    /\ UNCHANGED <<study, files, trial, cbs, check_point, logs, epochlogs,
                   nepochs, clock, raised, written, optuna_log_file,
                   failure_printed, delivered>>

\* lines 110-112, one turn of the loop: os.remove on a file that is no
\* longer there raises FileNotFoundError, which ends callbacks() and the
\* objective function (the trial is recorded FAIL) or, in post_process(),
\* reaches the caller of optimize
clean_up_remove(t) ==
    /\ pc[t] = "remove"
    /\ \E model_file \in todo[t] :
         LET rest == todo[t] \ {model_file}
             next == IF rest = {} THEN AfterCleanUp(t) ELSE "remove"
         IN  IF is_kept(self, model_file)
             THEN /\ todo' = [todo EXCEPT ![t] = rest]
                  /\ pc' = [pc EXCEPT ![t] = next]
                  /\ UNCHANGED <<files, study, raised>>
             ELSE IF model_file \in files
             THEN /\ files' = files \ {model_file}
                  /\ todo' = [todo EXCEPT ![t] = rest]
                  /\ pc' = [pc EXCEPT ![t] = next]
                  /\ UNCHANGED <<study, raised>>
             ELSE /\ raised' = [raised EXCEPT ![t] = "FileNotFoundError"]
                  /\ todo' = [todo EXCEPT ![t] = {}]
                  /\ pc' = [pc EXCEPT ![t] = IF t = Main THEN "error"
                                                         ELSE "idle"]
                  /\ study' = IF t = Main THEN study
                              ELSE SetTrialState(study, trial[t], "FAIL", None)
                  /\ UNCHANGED files
    /\ UNCHANGED <<self, trial, cbs, check_point, logs, epochlogs, nepochs,
                   clock, written, post_ops, optuna_log_file,
                   failure_printed, delivered>>

---------------------------------------------------------------------------
(* The epoch callbacks, called by the training loop of the objective.      *)

\* on_epoch_begin: get_datetime() reads the clock
on_epoch_begin(w, epochs) ==
    /\ pc[w] = "fit"
    /\ nepochs < epochs
    /\ self' = epoch_begin(self, clock)
    /\ clock' = clock + 1
    /\ nepochs' = nepochs + 1
    /\ pc' = [pc EXCEPT ![w] = "epoch"]
    /\ UNCHANGED <<study, files, trial, cbs, check_point, logs, todo,
                   epochlogs, raised, written, post_ops, optuna_log_file,
                   failure_printed, delivered>>

\* on_epoch_end(epoch, logs) on the raw logs of the epoch
on_epoch_end(w, raw) ==
    /\ pc[w] = "epoch"
    /\ LET timed == [self EXCEPT !.datetime_epoch_end = clock]
           stamped == stamp_logs(timed, raw, study)
           obj == epoch_end(timed, stamped)
       IN  /\ self' = obj
           /\ study' = save_logs_as_optuna_attributes(obj, study)
           /\ delivered' = [delivered EXCEPT ![w] = raw]
           /\ logs' = [logs EXCEPT ![w] = stamped]
           /\ epochlogs' = [epochlogs EXCEPT ![w] = Append(@, stamped)]
    /\ clock' = clock + 1
    /\ pc' = [pc EXCEPT ![w] = IF check_point[w] # Unset THEN "check_point"
                                                         ELSE "fit"]
    /\ UNCHANGED <<files, trial, cbs, check_point, todo, nepochs, raised,
                   written, post_ops, optuna_log_file,
                   failure_printed>>

\* ModelCheckpoint.on_epoch_end, after OptKeras's in the callback list: it
\* sees the logs on_epoch_end has changed in place
ModelCheckpoint_on_epoch_end(w) ==
    /\ pc[w] = "check_point"
    /\ IF ModelCheckpoint_saves(check_point[w], logs[w])
       THEN /\ check_point' =
                   [check_point EXCEPT ![w].best =
                                            logs[w][check_point[w].monitor]]
            /\ files' = files \cup {check_point[w].filepath}
            /\ written' = written \cup {check_point[w].filepath}
       ELSE UNCHANGED <<check_point, files, written>>
    /\ pc' = [pc EXCEPT ![w] = "fit"]
    /\ UNCHANGED <<self, study, trial, cbs, logs, todo, epochlogs, nepochs,
                   clock, raised, post_ops, optuna_log_file,
                   failure_printed, delivered>>

---------------------------------------------------------------------------
(* OptKeras.optimize: study.optimize, then post_process().                 *)

\* mutant: the two lines of post_process swapped, the clean-up (here in one
\* step) before synch_with_optuna; without a best_trial attribute yet the
\* clean-up raises AttributeError
post_process_clean_up_first(t, outcome) ==
    /\ t = Main
    /\ pc[t] = "post_process"
    /\ IF self.best_trial = Unset
       THEN /\ raised' = [raised EXCEPT ![t] = "AttributeError"]
            /\ pc' = [pc EXCEPT ![t] = "error"]
            /\ UNCHANGED <<self, files, post_ops, optuna_log_file,
                           failure_printed>>
       ELSE LET kept == get_model_file_path(self, self.best_trial.trial_id)
                cleaned == [self EXCEPT !.best_model_file_path = kept,
                                        !.model_file_list = files]
            IN  /\ files' = IF cleans_up(self) THEN files \cap {kept} ELSE files
                /\ self' = synch_with_optuna(
                               IF cleans_up(self) THEN cleaned ELSE self, study,
                               outcome)
                /\ optuna_log_file' =
                       synch_log_file(optuna_log_file, self, study, outcome)
                /\ failure_printed' =
                       [failure_printed EXCEPT
                          ![t] = prints_failure(self, outcome)]
                /\ post_ops' = post_ops \o <<"clean_up_model_files",
                                             "synch_with_optuna">>
                /\ pc' = [pc EXCEPT ![t] = "done"]
                /\ UNCHANGED raised
    /\ UNCHANGED <<study, trial, cbs, check_point, logs, todo, epochlogs,
                   nepochs, clock, written, delivered>>

\* line 210: self.synch_with_optuna(); line 211 is the clean-up
post_process(t, outcome) ==
    /\ t = Main
    /\ pc[t] = "post_process"
    /\ self' = synch_with_optuna(self, study, outcome)
    /\ optuna_log_file' = synch_log_file(optuna_log_file, self, study, outcome)
    /\ failure_printed' =
           [failure_printed EXCEPT ![t] = prints_failure(self, outcome)]
    /\ post_ops' = Append(post_ops, "synch_with_optuna")
    /\ pc' = [pc EXCEPT ![t] = "clean_up"]
    /\ UNCHANGED <<study, files, trial, cbs, check_point, logs, todo,
                   epochlogs, nepochs, clock, raised, written,
                   delivered>>

---------------------------------------------------------------------------
(* Specifications.                                                         *)

TrialEnds == {"FAIL", "PRUNED"}
ObjectiveValues == 0..MaxObj

\* the steps of the jobs in workers and of the caller of optimize
NextOf(workers, n_trials, epochs, rawlogs, values, ends, outcomes) ==
    \/ \E w \in workers : start_trial(w, n_trials)
    \/ \E w \in workers : \E o \in outcomes : callbacks_synch(w, o)
    \/ \E w \in workers : callbacks_bind(w)
    \/ \E w \in workers : callbacks_build(w)
    \/ \E t \in workers \cup {Main} : clean_up_model_files(t)
    \/ \E t \in workers \cup {Main} : clean_up_remove(t)
    \/ \E w \in workers : on_epoch_begin(w, epochs)
    \/ \E w \in workers : \E raw \in rawlogs : on_epoch_end(w, raw)
    \/ \E w \in workers : ModelCheckpoint_on_epoch_end(w)
    \/ \E w \in workers : \E v \in values : objective_returns(w, v)
    \/ \E w \in workers : \E s \in ends : objective_raises(w, s)
    \/ study_optimize_returns(workers)
    \/ \E o \in outcomes : post_process(Main, o)

\* the raw logs of the runs with one job: val_acc missing, or 1.0
SeqRawLogs == {EmptyDict, [val_acc |-> Scale]}

\* one job (n_jobs = 1), keep-one: the trials run one after the other
Init == InitWith({"val_error", "val_acc"}, {TRUE}, {1},
                 {"minimize", "maximize"})
Next == NextOf(SeqWorkers, MaxTrials, MaxEpochs, SeqRawLogs, ObjectiveValues,
               TrialEnds, {"ok"})
Spec == Init /\ [][Next]_vars

\* one job, every value of models_to_keep that __init__ accepts
InitPolicies == InitWith({"val_error"}, {TRUE}, {1, 0, -1, 2}, {"minimize"})
NextPolicies == NextOf(SeqWorkers, MaxTrials, MaxEpochs, {EmptyDict},
                       ObjectiveValues, TrialEnds, {"ok"})
SpecPolicies == InitPolicies /\ [][NextPolicies]_vars

\* one job, keep-one, the Optuna log enabled or not, and every way a call
\* of generate_optuna_log_file can end
InitLog == InitWith({"val_error"}, {TRUE, FALSE}, {1}, {"minimize"})
NextLog == NextOf(SeqWorkers, LogTrials, LogEpochs, SeqRawLogs, 0..1,
                  {"FAIL"}, LogOutcomes)
SpecLog == InitLog /\ [][NextLog]_vars

\* the monitor names of the docstring and one that is no metric of Keras
Monitors == {"acc", "val_acc", "error", "val_error", "loss", "val_loss", "lr"}

\* raw logs with or without acc, val_acc and loss
MetricRawLogs ==
    {dict_update(l, e) : l \in RawLogs({"acc", "val_acc"}),
                         e \in {EmptyDict, [loss |-> Scale]}}

\* one job, keep-one, every monitor name, every raw log
InitMetrics == InitWith(Monitors, {TRUE}, {1}, {"minimize"})
NextMetrics == NextOf(SeqWorkers, MetTrials, MetEpochs, MetricRawLogs, {0},
                      {"FAIL"}, {"ok"})
SpecMetrics == InitMetrics /\ [][NextMetrics]_vars

\* two jobs (n_jobs = 2) on the one OptKeras object, keep-one
InitPar == InitWith({"val_error"}, {TRUE}, {1}, {"minimize"})
NextPar == NextOf(ParWorkers, ParTrials, ParEpochs, [{"val_acc"} -> 0..Scale],
                  0..1, {"FAIL"}, {"ok"})
SpecPar == InitPar /\ [][NextPar]_vars

---------------------------------------------------------------------------
(* Vocabulary of the properties.                                           *)

\* a is strictly better than b under the object's mode
Better(a, b) == IF self.mode_max THEN a > b ELSE a < b

\* the monitored value of an EpochLog, the mode's default when it has none
Monitored(epoch_log) == dict_get(epoch_log, self.monitor, self.default_value)

\* job w has had on_epoch_end called in its current trial and is not inside
\* an epoch
AfterEpochEnd(w) ==
    /\ pc[w] \in {"check_point", "fit"}
    /\ Len(epochlogs[w]) >= 1

\* the first epoch of job w's current trial whose monitored value no other
\* epoch's betters
FirstBestEpoch(w) ==
    LET n == Len(epochlogs[w])
        best == {i \in 1..n : \A j \in 1..n :
                    ~Better(Monitored(epochlogs[w][j]),
                            Monitored(epochlogs[w][i]))}
    IN  CHOOSE i \in best : \A j \in best : i <= j

\* job w's trial has ended COMPLETE and the job has not started another
EndedComplete(w) ==
    /\ pc[w] = "idle"
    /\ trial[w] # None
    /\ study.trials[trial[w] + 1].state = "COMPLETE"

\* thread t has just come out of clean_up_model_files
CleanUpDone(t) ==
    IF t = Main THEN pc[t] = "done"
    ELSE pc[t] = "fit" /\ epochlogs[t] = <<>>

---------------------------------------------------------------------------
(* C1..C10.                                                                *)

\* C1: within a trial, after any number of on_epoch_begin/on_epoch_end
\* pairs, the monitored value in trial_best_logs, mirrored in
\* trial_best_value, is never worse per mode than the monitored value of any
\* EpochLog delivered so far in the trial.
C1_BestNeverWorse ==
    \A w \in SeqWorkers :
      AfterEpochEnd(w) =>
        \A i \in 1..Len(epochlogs[w]) :
          /\ ~Better(Monitored(epochlogs[w][i]), self.trial_best_value)
          /\ ~Better(Monitored(epochlogs[w][i]), Monitored(self.trial_best_logs))

\* C2: trial_best_logs is replaced only on a strictly better monitored
\* value, so what is retained after an epoch is the EpochLog of the first
\* epoch that attains the trial's extremal monitored value.
C2_FirstExtremalRetained ==
    \A w \in SeqWorkers :
      (AfterEpochEnd(w) /\ Monitored(epochlogs[w][FirstBestEpoch(w)])
                             # self.default_value) =>
        self.trial_best_logs = epochlogs[w][FirstBestEpoch(w)]

\* C5: once a trial has ended, its user attributes hold the metrics of the
\* trial's best epoch: their monitored value is the extremal monitored value
\* of the trial's epochs, not that of some other epoch.
C5_AttrsHoldBestEpoch ==
    \A w \in SeqWorkers :
      (EndedComplete(w) /\ Monitored(epochlogs[w][FirstBestEpoch(w)])
                             # self.default_value) =>
        Monitored(study.trials[trial[w] + 1].user_attrs)
          = Monitored(epochlogs[w][FirstBestEpoch(w)])

C4_LatestNeverRunning ==
    self.latest_trial # Unset => self.latest_trial.state # "RUNNING"

\* C6: after study.optimize returns, optimize makes exactly one final pass,
\* synch_with_optuna then clean_up_model_files, and at the end of the run
\* best_trial is the study's best trial and, under keep-one, no model file
\* is left but the one named by best_trial's id, which is left if it was
\* ever saved.
C6_FinalPassConsistent ==
    pc[Main] = "done" =>
      LET kept == get_model_file_path(self, self.best_trial.trial_id)
      IN  /\ post_ops = <<"synch_with_optuna", "clean_up_model_files">>
          /\ self.best_trial = IF CompleteTrials(study) = {} THEN SentinelTrial
                               ELSE study_best_trial(study)
          /\ self.models_to_keep = 1 =>
                /\ files \subseteq {kept}
                /\ kept \in written => kept \in files

\* the run has ended under keep-one with the last of two completed trials
\* the best, and only its artifact is left
C6_Witness ==
    /\ pc[Main] = "done"
    /\ self.models_to_keep = 1
    /\ Len(study.trials) = 2
    /\ CompleteTrials(study) = {1, 2}
    /\ self.best_trial.trial_id = 1
    /\ files = {get_model_file_path(self, 1)}

\* C7: an object built with a retention count other than 1, -1 or 0 is
\* rejected by the constructor, so none reaches the per-trial setup or the
\* clean-up.
C7_UnsupportedNeverSetUp ==
    (\E t \in Threads : pc[t] \in {"callbacks", "bind", "build", "clean_up",
                                   "remove", "fit"})
      => self.models_to_keep \in {1, -1, 0}

\* C8: when clean_up_model_files goes to delete a file that is no longer
\* there, nothing is raised.
C8_RemoveAbsentDoesNotRaise ==
    \A t \in Threads : raised[t] # "FileNotFoundError"

\* C9: synch_with_optuna on a study with no trials raises nothing and leaves
\* both latest_trial and best_trial the sentinel, whose id and value are
\* None.
C9_EmptyStudySentinel ==
    (pc[Main] \in {"clean_up", "remove", "done"} /\ Len(study.trials) = 0) =>
      /\ self.best_trial = SentinelTrial
      /\ self.latest_trial = SentinelTrial
      /\ SentinelTrial.trial_id = None /\ SentinelTrial.value = None
      /\ raised[Main] = "none"

\* study.optimize has returned without a trial and post_process has run
C9_Witness ==
    /\ pc[Main] = "done"
    /\ Len(study.trials) = 0
    /\ self.latest_trial # Unset
    /\ self.latest_trial.trial_id = None

\* a thread has just returned from synch_with_optuna
JustSynched(t) == IF t = Main THEN pc[t] = "clean_up" ELSE pc[t] = "bind"

\* C10: after synch_with_optuna, best_trial is the study's best trial, a
\* COMPLETE trial whose value no COMPLETE trial's betters under the study's
\* direction, whenever there is one; when there is none (only running,
\* failed or pruned trials) best_trial is the sentinel and nothing is raised.
C10_BestTrialOrSentinel ==
    \A t \in SeqWorkers \cup {Main} :
      JustSynched(t) =>
        IF \E i \in 1..Len(study.trials) : study.trials[i].state = "COMPLETE"
        THEN /\ \E i \in 1..Len(study.trials) : study.trials[i] = self.best_trial
             /\ self.best_trial.state = "COMPLETE"
             /\ \A j \in 1..Len(study.trials) :
                  study.trials[j].state = "COMPLETE" =>
                    IF study.direction = "maximize"
                    THEN study.trials[j].value <= self.best_trial.value
                    ELSE study.trials[j].value >= self.best_trial.value
        ELSE /\ self.best_trial = SentinelTrial
             /\ raised[t] = "none"

\* synch_with_optuna has resolved best_trial to the second of two completed
\* trials, the first being worse
C10_Witness ==
    /\ JustSynched(Main)
    /\ CompleteTrials(study) = {1, 2}
    /\ study.trials[1].value # study.trials[2].value
    /\ self.best_trial = study.trials[2]

\* C11: under keep-all (models_to_keep = -1) no setup, epoch or final pass
\* ever deletes a model file, so every file ever saved is on disk; under
\* keep-none (models_to_keep = 0) no ModelCheckpoint is among the callbacks
\* handed to the training loop, no model file is ever written, and a
\* clean-up lists and removes nothing.
C11_KeepAllKeepNone ==
    /\ self.models_to_keep = -1 => files = written
    /\ self.models_to_keep = 0 =>
         /\ written = {} /\ files = {}
         /\ \A t \in Threads :
              /\ check_point[t] = Unset
              /\ \A i \in 1..Len(cbs[t]) : cbs[t][i] # "check_point"
              /\ todo[t] = {}
              /\ pc[t] # "remove"
         /\ self.model_file_list = {}

\* a keep-all run has ended with the model files of three trials on disk
C11_Witness ==
    /\ self.models_to_keep = -1
    /\ pc[Main] = "done"
    /\ Len(study.trials) = 3
    /\ Cardinality(files) = 3

\* C12: the mode is maximize exactly when the monitor is acc or val_acc and
\* minimize for every other name; the default for an absent monitored value
\* is -Inf under maximize and +Inf under minimize, and an epoch whose logs
\* lack the monitored value is no improvement: it leaves trial_best_logs
\* and trial_best_value as on_epoch_begin left them.
C12_ModeAndSentinel ==
    /\ self.mode_max <=> self.monitor \in {"acc", "val_acc"}
    /\ self.mode = IF self.monitor \in {"acc", "val_acc"} THEN "max" ELSE "min"
    /\ self.monitor \in {"error", "val_error", "loss", "val_loss"}
         => self.mode = "min"
    /\ self.default_value = IF self.mode = "max" THEN -Inf ELSE Inf
    /\ \A v \in (0..Scale) \cup {self.default_value} :
         ~Better(self.default_value, v)
    /\ \A w \in SeqWorkers :
         (AfterEpochEnd(w) /\ self.monitor \notin DOMAIN logs[w]) =>
           /\ self.trial_best_logs = EmptyDict
           /\ self.trial_best_value = self.default_value

\* an epoch of a run monitoring acc has ended without acc in its logs
C12_Witness ==
    /\ self.monitor = "acc"
    /\ self.default_value = -Inf
    /\ AfterEpochEnd(1)
    /\ "acc" \notin DOMAIN logs[1]
    /\ "val_acc" \in DOMAIN logs[1]

\* the keys on_epoch_end adds to the logs
AddedKeys ==
    {"error", "val_error", "_Datetime_epoch_begin", "_Datetime_epoch_end",
     "_Trial_id", "_Monitor"}

\* C13: after on_epoch_end the caller's logs hold error = 1 - acc and
\* val_error = 1 - val_acc, a missing acc or val_acc counting as 0 and
\* raising nothing, together with the two timestamps, the trial id and the
\* monitor name; every other key of the logs has the value it came with.
C13_StampsLogsInPlace ==
    \A w \in SeqWorkers :
      AfterEpochEnd(w) =>
        LET raw == delivered[w]
            l == logs[w]
        IN  /\ DOMAIN l = DOMAIN raw \cup AddedKeys
            /\ l["error"] = Scale - (IF "acc" \in DOMAIN raw THEN raw["acc"]
                                                             ELSE 0)
            /\ l["val_error"] =
                 Scale - (IF "val_acc" \in DOMAIN raw THEN raw["val_acc"] ELSE 0)
            /\ l["_Datetime_epoch_begin"] = self.datetime_epoch_begin
            /\ l["_Datetime_epoch_end"] = self.datetime_epoch_end
            /\ l["_Trial_id"] = trial[w]
            /\ l["_Monitor"] = self.monitor
            /\ \A k \in DOMAIN raw \ AddedKeys : l[k] = raw[k]
            /\ raised[w] = "none"

\* on_epoch_end has been given acc = 1.0 and a loss but no val_acc
C13_Witness ==
    /\ AfterEpochEnd(1)
    /\ DOMAIN delivered[1] = {"acc", "loss"}
    /\ delivered[1]["acc"] = Scale
    /\ logs[1]["error"] = 0
    /\ logs[1]["val_error"] = Scale
    /\ logs[1]["loss"] = delivered[1]["loss"]

\* job w takes the step on_epoch_begin
EpochBegins(w) == pc[w] = "fit" /\ pc'[w] = "epoch"

\* C14: on_epoch_begin empties trial_best_logs only at a trial's first
\* epoch; at any later epoch of the trial it leaves trial_best_logs as it
\* was and changes only the epoch-begin timestamp.
C14_ClearsOnlyAtFirstEpoch ==
    [][\A w \in SeqWorkers :
         (EpochBegins(w) /\ Len(epochlogs[w]) >= 1) =>
           self' = [self EXCEPT !.datetime_epoch_begin =
                                   self'.datetime_epoch_begin]]_vars

\* the step removes the model file of the trial that is the study's best
RemovesBestArtifact ==
    /\ CompleteTrials(study) # {}
    /\ get_model_file_path(self, study_best_trial(study).trial_id)
         \in files \ files'

\* C15: with two jobs on one object under keep-one, in every interleaving
\* no clean-up raises because another has removed a file between its glob
\* and its os.remove, and no clean-up removes the model file of the trial
\* that is the study's best at that moment.
C15_ConcurrentCleanUpSafe ==
    /\ [](\A t \in Threads : raised[t] = "none")
    /\ [][~RemovesBestArtifact]_vars

\* C16: two trials running in parallel on one object do not disturb each
\* other: in every interleaving the trial id stamped into an EpochLog is
\* the id of the trial whose training loop delivered the epoch, and a
\* trial's user attributes come only from that trial's own epochs: they
\* carry its own id and there are none before its first epoch.
C16_IsolatedTrackers ==
    /\ \A w \in ParWorkers :
         \A i \in 1..Len(epochlogs[w]) : epochlogs[w][i]["_Trial_id"] = trial[w]
    /\ \A w \in ParWorkers :
         (trial[w] # None /\ epochlogs[w] = <<>>) =>
           study.trials[trial[w] + 1].user_attrs = EmptyDict
    /\ \A i \in 1..Len(study.trials) :
         "_Trial_id" \in DOMAIN study.trials[i].user_attrs =>
           study.trials[i].user_attrs["_Trial_id"] = study.trials[i].trial_id

\* thread t takes the step synch_with_optuna
SynchStep(t) ==
    IF t = Main THEN pc[t] = "post_process" /\ pc'[t] = "clean_up"
    ELSE pc[t] = "callbacks" /\ pc'[t] = "bind"

\* C17: synch_with_optuna only reads the study: whatever the trial list,
\* it leaves the trials, their order, values, states and user attributes
\* as they are, and of the object it changes nothing but best_trial,
\* latest_trial and optuna_log.
C17_SynchReadOnly ==
    [][\A t \in Threads :
         SynchStep(t) =>
           /\ study' = study
           /\ self' = [self EXCEPT !.best_trial = self'.best_trial,
                                   !.latest_trial = self'.latest_trial,
                                   !.optuna_log = self'.optuna_log]]_vars

\* the final synch_with_optuna has run on a study of two trials with user
\* attributes, and has taken the trials into optuna_log
C17_Witness ==
    /\ JustSynched(Main)
    /\ Len(study.trials) = 2
    /\ \A i \in 1..2 : study.trials[i].user_attrs # EmptyDict
    /\ self.trial_best_logs # EmptyDict
    /\ self.optuna_log = trials_dataframe(study)
    /\ self.latest_trial = study.trials[2]

\* C18: a failure of generate_optuna_log_file inside synch_with_optuna is
\* not fatal: nothing is raised to the caller, who goes on to the next
\* line, and best_trial and latest_trial are resolved to the values they
\* get when the log is generated or when it is disabled.
C18_LogFailureNotFatal ==
    [][\A t \in Threads :
         (SynchStep(t) /\ failure_printed'[t]) =>
           LET logged == synch_with_optuna(self, study, "ok")
               disabled == synch_with_optuna(
                               [self EXCEPT !.enable_optuna_log = FALSE],
                               study, "ok")
           IN  /\ raised'[t] = "none"
               /\ self'.best_trial = logged.best_trial
               /\ self'.latest_trial = logged.latest_trial
               /\ self'.best_trial = disabled.best_trial
               /\ self'.latest_trial = disabled.latest_trial]_vars

\* the log could not be generated in the final pass of a run of two
\* completed trials, the second the better; the run has ended with
\* best_trial the second trial and only its model file left
C18_Witness ==
    /\ pc[Main] = "done"
    /\ failure_printed[Main]
    /\ CompleteTrials(study) = {1, 2}
    /\ study.trials[2].value < study.trials[1].value
    /\ self.best_trial = study.trials[2]
    /\ self.latest_trial = study.trials[2]
    /\ files = {get_model_file_path(self, 1)}

\* job w takes the step on_epoch_end, and it replaces trial_best_logs
ReplacesBestLogs(w) ==
    /\ pc[w] = "epoch" /\ pc'[w] # "epoch"
    /\ self'.trial_best_logs # self.trial_best_logs

\* C19 as stated: whenever on_epoch_end replaces trial_best_logs, it has
\* afterwards exactly the keys and values of that epoch's EpochLog, and the
\* step has no effect outside the object: not on the files and not on the
\* study.
C19_WholesaleObjectOnly ==
    [][\A w \in SeqWorkers :
         ReplacesBestLogs(w) =>
           /\ self'.trial_best_logs = logs'[w]
           /\ files' = files /\ optuna_log_file' = optuna_log_file
           /\ study' = study]_vars

\* C19 amended: whenever on_epoch_end replaces trial_best_logs, it has
\* afterwards exactly the keys and values of that epoch's EpochLog, and the
\* step writes and deletes no file; outside the object it sets the user
\* attributes of the bound trial to the items of trial_best_logs and
\* changes nothing else of the study.
C19_WholesaleNoFiles ==
    [][\A w \in SeqWorkers :
         ReplacesBestLogs(w) =>
           /\ self'.trial_best_logs = logs'[w]
           /\ DOMAIN self'.trial_best_logs = DOMAIN delivered'[w] \cup AddedKeys
           /\ files' = files /\ optuna_log_file' = optuna_log_file
           /\ study' = [study EXCEPT
                          !.trials[trial[w] + 1].user_attrs =
                              [k \in DOMAIN @ \cup DOMAIN logs'[w] |->
                                 IF k \in DOMAIN logs'[w] THEN logs'[w][k]
                                                          ELSE @[k]]]]_vars

\* the second epoch of a trial has replaced trial_best_logs with a log that
\* has no val_acc, after a first epoch whose log had one
C19_Witness ==
    /\ AfterEpochEnd(1)
    /\ Len(epochlogs[1]) = 2
    /\ "val_acc" \in DOMAIN epochlogs[1][1]
    /\ "val_acc" \notin DOMAIN epochlogs[1][2]
    /\ self.trial_best_logs = epochlogs[1][2]
    /\ study.trials[trial[1] + 1].user_attrs # epochlogs[1][2]

\* C20: with one job under keep-one, at every point of the run at most two
\* files match the study's model file pattern, and the model file of the
\* best completed trial, once saved, is on disk: no clean-up removes it.
C20_AtMostTwoBestStays ==
    self.models_to_keep = 1 =>
      /\ Cardinality(glob(get_model_file_path(self, None))) <= 2
      /\ CompleteTrials(study) # {} =>
           LET kept == get_model_file_path(self,
                                           study_best_trial(study).trial_id)
           IN  kept \in written => kept \in files

\* the third trial is training after its setup, with its own model file
\* and that of the best completed trial, the first, on disk; the second
\* trial's file, saved too, has been removed
C20_Witness ==
    /\ self.models_to_keep = 1
    /\ Len(study.trials) = 3
    /\ pc[1] = "fit"
    /\ CompleteTrials(study) = {1, 2}
    /\ study_best_trial(study).trial_id = 0
    /\ Cardinality(written) = 3
    /\ files = {get_model_file_path(self, 0), get_model_file_path(self, 2)}

====
